---- MODULE Spec2Model ----
(***************************************************************************)
(* Stub lifecycle of the Bloomberg ingestion system: the stub registry     *)
(* (src/src/stub/registry.py), the matcher (src/src/stub/matcher.py), the  *)
(* manager (src/src/stub/manager.py), the ingestion pipeline               *)
(* (src/src/orchestration/ingestion_pipeline.py), the reconciliation       *)
(* script (src/scripts/reconcile_stubs.py) and the Outlook connector       *)
(* (src/src/outlook/extractor.py).                                         *)
(*                                                                         *)
(* Strings are sequences of one-character strings.  A datetime is a triple *)
(* <<day, second, microsecond>>.  Entry ids are positive integers.         *)
(***************************************************************************)
EXTENDS Integers, Sequences, FiniteSets, TLC

VARIABLES stubs, peer, disk, mailbox, nextId, clock, stats, run, last

vars == <<stubs, peer, disk, mailbox, nextId, clock, stats, run, last>>

(***************************************************************************)
(* Bounds of the model.                                                    *)
(***************************************************************************)
\* largest entry id the connector hands out (fresh ids start after the pool)
MaxId == 7
\* last reading of the clock at which a status update may be stamped
MaxClock == 2
\* largest number of records the registry is driven to
MaxStubs == 2

(***************************************************************************)
(* Strings: str.lower, str.strip and the prefix pattern of                 *)
(* normalize_subject.                                                      *)
(***************************************************************************)
UpperCase == {"F", "G", "X"}
WhiteSpace == {" "}

LowerChar(c) ==
    CASE c = "F" -> "f"
      [] c = "G" -> "g"
      [] c = "X" -> "x"
      [] OTHER -> c

\* str.lower()
Lower(s) == [i \in 1..Len(s) |-> LowerChar(s[i])]

RECURSIVE LStrip(_)
\* removal of leading whitespace (the \s* of the pattern, the left half of strip)
LStrip(s) ==
    IF s # <<>> /\ Head(s) \in WhiteSpace THEN LStrip(Tail(s)) ELSE s

RECURSIVE RStrip(_)
RStrip(s) ==
    IF s # <<>> /\ s[Len(s)] \in WhiteSpace
    THEN RStrip(SubSeq(s, 1, Len(s) - 1))
    ELSE s

\* str.strip()
Strip(s) == RStrip(LStrip(s))

RECURSIVE UpperRun(_, _)
\* number of consecutive capital letters of s from position i on: [A-Z]+
UpperRun(s, i) ==
    IF i <= Len(s) /\ s[i] \in UpperCase THEN 1 + UpperRun(s, i + 1) ELSE 0

\* whether s starts with the pattern ^\([A-Z]+\)
HasPrefix(s) ==
    /\ Len(s) >= 3
    /\ s[1] = "("
    /\ UpperRun(s, 2) >= 1
    /\ Len(s) >= UpperRun(s, 2) + 2
    /\ s[UpperRun(s, 2) + 2] = ")"

\* normalize_subject without the removal of the prefix (what
\* EmailDocument.get_fingerprint does)
normalize_subject_keep_prefix(subject) == Strip(subject)

RECURSIVE LetterRun(_, _)
\* number of consecutive letters of either case of s from position i on
LetterRun(s, i) ==
    IF i <= Len(s) /\ s[i] \in UpperCase \cup {"f", "g", "x"}
    THEN 1 + LetterRun(s, i + 1)
    ELSE 0

\* normalize_subject with the pattern ^\s*\([A-Za-z]+\)\s*: the token in any case,
\* whitespace allowed before the bracket
normalize_subject_any_case(subject) ==
    LET s == LStrip(subject)
        n == LetterRun(s, 2)
    IN IF Len(s) >= 3 /\ s[1] = "(" /\ n >= 1 /\ Len(s) >= n + 2 /\ s[n + 2] = ")"
       THEN Strip(SubSeq(s, n + 3, Len(s)))
       ELSE Strip(subject)

\* StubRegistry.normalize_subject: re.sub(r'^\([A-Z]+\)\s*', '', subject).strip()
normalize_subject(subject) ==
    IF HasPrefix(subject)
    THEN Strip(LStrip(SubSeq(subject, UpperRun(subject, 2) + 3, Len(subject))))
    ELSE Strip(subject)

\* A datetime is <<day of January 2024, second of the day, microsecond>>.
\* datetime.strftime("%Y%m%d"): the day alone, the time of day is dropped
DateStr(dt) ==
    CASE dt[1] = 15 -> <<"2", "0", "2", "4", "0", "1", "1", "5">>
      [] dt[1] = 16 -> <<"2", "0", "2", "4", "0", "1", "1", "6">>

\* StubRegistry.create_fingerprint
create_fingerprint(subject, received_date) ==
    Strip(Lower(normalize_subject(subject))) \o <<"_">> \o DateStr(received_date)

\* EmailDocument.get_fingerprint
get_fingerprint(subject, received_date) ==
    Strip(Lower(subject)) \o <<"_">> \o DateStr(received_date)

(***************************************************************************)
(* The messages the mailbox can deliver.  Each has the subject, received   *)
(* time and Story ID the connector and the metadata extractor report for   *)
(* it, and the verdict of StubDetector.detect_from_email.  A message's     *)
(* first EntryID is its number.                                            *)
(***************************************************************************)
Msgs == {1, 2, 3, 4}

NoStory == "None"
NoTime == <<>>
NoId == 0

SubjF == <<"F">>
SubjXF == <<"(", "X", ")", " ", "F">>
SubjG == <<"G">>

\* raw_email['subject']
Subject(m) ==
    CASE m = 1 -> SubjF
      [] m = 2 -> SubjXF
      [] m = 3 -> SubjG
      [] m = 4 -> SubjF

\* raw_email['received_date']
Received(m) ==
    CASE m = 1 -> <<15, 1, 0>>
      [] m = 2 -> <<15, 2, 5>>
      [] m = 3 -> <<16, 1, 3>>
      [] m = 4 -> <<15, 4, 0>>

\* MetadataExtractor.extract(...).story_id
StoryOf(m) ==
    CASE m = 1 -> NoStory
      [] m = 2 -> NoStory
      [] m = 3 -> "S1"
      [] m = 4 -> "S1"

\* StubDetector.detect_from_email(raw_email)
IsStub(m) == m \in {1, 3}

Folders == {"absent", "source", "stubs", "indexed", "processed"}

(***************************************************************************)
(* StubEntry and the registry (a sequence of StubEntry).                   *)
(***************************************************************************)
\* StubEntry(...) as its callers construct it: status "pending", completed_at None
StubEntry(eid, story, fp, subject, received) ==
    [outlook_entry_id |-> eid, story_id |-> story, fingerprint |-> fp,
     subject |-> subject, received_time |-> received,
     status |-> "pending", completed_at |-> NoTime]

\* a timestamp format that stops at the second (strftime("%Y-%m-%dT%H:%M:%S"))
isoformat_seconds(dt) == <<"2024-01-", dt[1], "T", dt[2]>>

\* datetime.isoformat(): the microseconds are written only when they are not zero
isoformat(dt) ==
    <<"2024-01-", dt[1], "T", dt[2]>> \o (IF dt[3] # 0 THEN <<".", dt[3]>> ELSE <<>>)

\* datetime.fromisoformat()
fromisoformat(s) == <<s[2], s[4], IF Len(s) = 6 THEN s[6] ELSE 0>>

\* StubEntry.to_dict
to_dict(e) ==
    [outlook_entry_id |-> e.outlook_entry_id, story_id |-> e.story_id,
     fingerprint |-> e.fingerprint, subject |-> e.subject,
     received_time |-> isoformat(e.received_time), status |-> e.status,
     completed_at |-> IF e.completed_at # NoTime THEN isoformat(e.completed_at) ELSE NoTime]

\* StubEntry.from_dict
from_dict(d) ==
    [outlook_entry_id |-> d.outlook_entry_id, story_id |-> d.story_id,
     fingerprint |-> d.fingerprint, subject |-> d.subject,
     received_time |-> fromisoformat(d.received_time), status |-> d.status,
     completed_at |-> IF d.completed_at # NoTime THEN fromisoformat(d.completed_at) ELSE NoTime]

\* StubRegistry.save: the whole registry replaces the document
save(reg) == [i \in 1..Len(reg) |-> to_dict(reg[i])]

\* StubRegistry.load
load(doc) == [i \in 1..Len(doc) |-> from_dict(doc[i])]

\* datetime.now() at the given reading of the clock
Now(c) == <<17, c, 1>>

RECURSIVE ScanId(_, _, _)
\* the loop of get_stub_by_id from position i on: first index with that EntryID, or 0
ScanId(reg, i, eid) ==
    IF i > Len(reg) THEN 0
    ELSE IF reg[i].outlook_entry_id = eid THEN i
    ELSE ScanId(reg, i + 1, eid)

\* StubRegistry.get_stub_by_id: index of the first record with that EntryID, 0 for None
get_stub_by_id(reg, eid) == ScanId(reg, 1, eid)

RECURSIVE ScanStory(_, _, _)
\* the loop of find_by_story_id from position i on
ScanStory(reg, i, story) ==
    IF i > Len(reg) THEN 0
    ELSE IF reg[i].status = "pending" /\ reg[i].story_id = story THEN i
    ELSE ScanStory(reg, i + 1, story)

\* StubRegistry.find_by_story_id: index of the first pending record, 0 for None
find_by_story_id(reg, story) ==
    IF story = NoStory THEN 0 ELSE ScanStory(reg, 1, story)

\* the positions of the records with the given fingerprint
WithFp(reg, fp) == {i \in 1..Len(reg) : reg[i].fingerprint = fp}

RECURSIVE ScanFingerprint(_, _, _)
\* the loop of find_by_fingerprint from position i on
ScanFingerprint(reg, i, fp) ==
    IF i > Len(reg) THEN 0
    ELSE IF reg[i].status = "pending" /\ reg[i].fingerprint = fp THEN i
    ELSE ScanFingerprint(reg, i + 1, fp)

\* find_by_fingerprint without its "only match pending stubs" test
find_by_fingerprint_any_status(reg, fp) ==
    IF fp = <<>> \/ WithFp(reg, fp) = {} THEN 0
    ELSE CHOOSE i \in WithFp(reg, fp) : \A j \in WithFp(reg, fp) : i <= j

\* StubRegistry.find_by_fingerprint: index of the first pending record, 0 for None
find_by_fingerprint(reg, fp) ==
    IF fp = <<>> THEN 0 ELSE ScanFingerprint(reg, 1, fp)

\* StubRegistry.add_stub: its return value
add_stub_ret(reg, entry) == get_stub_by_id(reg, entry.outlook_entry_id) = 0

\* add_stub without its duplicate guard
add_stub_unguarded(reg, entry) ==
    Append(reg, [entry EXCEPT !.status = "pending", !.completed_at = NoTime])

\* add_stub overwriting the record that carries the EntryID
add_stub_overwrite(reg, entry) ==
    IF get_stub_by_id(reg, entry.outlook_entry_id) # 0
    THEN [reg EXCEPT ![get_stub_by_id(reg, entry.outlook_entry_id)] =
                         [entry EXCEPT !.status = "pending", !.completed_at = NoTime]]
    ELSE Append(reg, [entry EXCEPT !.status = "pending", !.completed_at = NoTime])

\* StubRegistry.add_stub: the registry it leaves
add_stub(reg, entry) ==
    IF get_stub_by_id(reg, entry.outlook_entry_id) # 0 THEN reg
    ELSE Append(reg, [entry EXCEPT !.status = "pending", !.completed_at = NoTime])

\* StubRegistry.update_status: its return value
update_status_ret(reg, eid) == get_stub_by_id(reg, eid) # 0

\* update_status falling back to the first record when the EntryID is not found
update_status_first_record(reg, eid, new_status, completed_at, now) ==
    LET f == get_stub_by_id(reg, eid)
        i == IF f = 0 /\ Len(reg) > 0 THEN 1 ELSE f
    IN IF i = 0 THEN reg
       ELSE [reg EXCEPT ![i].status = new_status,
                        ![i].completed_at = IF completed_at # NoTime THEN completed_at ELSE now]

\* update_status setting the status and leaving completed_at as it is
update_status_no_stamp(reg, eid, new_status, completed_at, now) ==
    LET i == get_stub_by_id(reg, eid) IN
    IF i = 0 THEN reg ELSE [reg EXCEPT ![i].status = new_status]

\* StubRegistry.update_status: the registry it leaves (completed_at or datetime.now())
update_status(reg, eid, new_status, completed_at, now) ==
    LET i == get_stub_by_id(reg, eid) IN
    IF i = 0 THEN reg
    ELSE [reg EXCEPT ![i].status = new_status,
                     ![i].completed_at = IF completed_at # NoTime THEN completed_at ELSE now]

\* StubRegistry.update_stub_entry_id: its return value
update_stub_entry_id_ret(reg, old) == get_stub_by_id(reg, old) # 0

\* update_stub_entry_id rebuilding the record as a new pending one
update_stub_entry_id_reset(reg, old, new) ==
    LET i == get_stub_by_id(reg, old) IN
    IF i = 0 THEN reg
    ELSE [reg EXCEPT ![i].outlook_entry_id = new, ![i].status = "pending",
                     ![i].completed_at = NoTime]

\* StubRegistry.update_stub_entry_id: the registry it leaves
update_stub_entry_id(reg, old, new) ==
    LET i == get_stub_by_id(reg, old) IN
    IF i = 0 THEN reg ELSE [reg EXCEPT ![i].outlook_entry_id = new]

\* StubRegistry.get_all_pending, as the indices of the pending records in order
get_all_pending(reg) == SelectSeq([i \in 1..Len(reg) |-> i], LAMBDA i : reg[i].status = "pending")

(***************************************************************************)
(* The Outlook connector.  mailbox[m] is the folder holding message m and  *)
(* the EntryID that names it there.  A move names the message by EntryID;  *)
(* Outlook gives the moved item a new EntryID (registry.py,                *)
(* update_stub_entry_id: "When an email is moved in Outlook, its EntryID   *)
(* changes"), drawn here from the counter nextId.  A move can fail for     *)
(* reasons of its own (folder missing, connection lost): ok = FALSE.       *)
(***************************************************************************)
\* namespace.GetItemFromID: the message the EntryID names, 0 when it names none
GetItemFromID(mb, eid) ==
    IF \E m \in Msgs : mb[m].folder # "absent" /\ mb[m].eid = eid
    THEN CHOOSE m \in Msgs : mb[m].folder # "absent" /\ mb[m].eid = eid
    ELSE 0

\* the EntryID of an item after email.Move(target_folder)
MovedId(old, fresh) == fresh

\* OutlookExtractor.move_email: its return value
move_email_ret(mb, eid, ok, fresh) ==
    GetItemFromID(mb, eid) # 0 /\ ok /\ fresh <= MaxId

\* OutlookExtractor.move_email: the mailbox it leaves
move_email(mb, eid, target, ok, fresh) ==
    IF move_email_ret(mb, eid, ok, fresh)
    THEN [mb EXCEPT ![GetItemFromID(mb, eid)] =
                        [folder |-> target, eid |-> MovedId(eid, fresh)]]
    ELSE mb

\* the counter of fresh EntryIDs after a move
NextFresh(mb, eid, ok, fresh) ==
    IF move_email_ret(mb, eid, ok, fresh) THEN fresh + 1 ELSE fresh

\* whether a is a later datetime than b
Later(a, b) ==
    \/ a[1] > b[1]
    \/ a[1] = b[1] /\ a[2] > b[2]
    \/ a[1] = b[1] /\ a[2] = b[2] /\ a[3] > b[3]

RECURSIVE SortDesc(_)
\* emails.Sort("[ReceivedTime]", True): newest first
SortDesc(S) ==
    IF S = {} THEN <<>>
    ELSE LET m == CHOOSE x \in S : \A y \in S \ {x} : Later(Received(x), Received(y))
         IN <<m>> \o SortDesc(S \ {m})

\* OutlookExtractor.extract_emails: the raw emails of the source folder, each
\* with the EntryID it has at extraction
extract_emails(mb) ==
    LET order == SortDesc({m \in Msgs : mb[m].folder = "source"})
    IN [k \in 1..Len(order) |-> <<order[k], mb[order[k]].eid>>]

(***************************************************************************)
(* The matcher.                                                            *)
(***************************************************************************)
\* StubMatcher.match_by_story_id
match_by_story_id(reg, story) ==
    IF story = NoStory THEN 0 ELSE find_by_story_id(reg, story)

\* StubMatcher.match_by_fingerprint
match_by_fingerprint(reg, fp) ==
    IF fp = <<>> THEN 0 ELSE find_by_fingerprint(reg, fp)

\* find_matching_stub trying the fingerprint before the Story ID
find_matching_stub_fingerprint_first(reg, story, fp) ==
    IF match_by_fingerprint(reg, fp) # 0 THEN match_by_fingerprint(reg, fp)
    ELSE match_by_story_id(reg, story)

\* StubMatcher.find_matching_stub on a document with that Story ID and fingerprint
find_matching_stub(reg, story, fp) ==
    LET byStory == IF story # NoStory THEN match_by_story_id(reg, story) ELSE 0
    IN IF byStory # 0 THEN byStory ELSE match_by_fingerprint(reg, fp)

\* IngestionPipeline._process_complete, step 3: the same two tiers, inlined
pipeline_match(reg, story, fp) ==
    LET byStory == IF story # NoStory THEN match_by_story_id(reg, story) ELSE 0
    IN IF byStory # 0 THEN byStory ELSE match_by_fingerprint(reg, fp)

\* StubMatcher.move_stub_to_processed: its return value
move_stub_to_processed_ret(reg, mb, i, ok, fresh) ==
    move_email_ret(mb, reg[i].outlook_entry_id, ok, fresh)

\* update_registry dropping the record instead of marking it completed
update_registry_remove(reg, i, now) ==
    SubSeq(reg, 1, i - 1) \o SubSeq(reg, i + 1, Len(reg))

\* StubMatcher.update_registry: the registry it leaves
update_registry(reg, i, now) ==
    update_status(reg, reg[i].outlook_entry_id, "completed", now, now)

\* StubMatcher.complete_stub: its return value
complete_stub_ret(reg, mb, i, ok, fresh) ==
    /\ move_stub_to_processed_ret(reg, mb, i, ok, fresh)
    /\ update_status_ret(reg, reg[i].outlook_entry_id)

\* complete_stub going on to update_registry although the move failed
complete_stub_reg_unchecked(reg, mb, i, ok, fresh, now) == update_registry(reg, i, now)

\* StubMatcher.complete_stub: the registry it leaves
complete_stub_reg(reg, mb, i, ok, fresh, now) ==
    IF move_stub_to_processed_ret(reg, mb, i, ok, fresh)
    THEN update_registry(reg, i, now)
    ELSE reg

\* StubMatcher.complete_stub: the mailbox it leaves
complete_stub_mb(reg, mb, i, ok, fresh) ==
    move_email(mb, reg[i].outlook_entry_id, "processed", ok, fresh)

(***************************************************************************)
(* The reconciliation script.                                              *)
(***************************************************************************)
\* extract_indexed_emails_metadata: the messages of /indexed/
indexed_emails(mb) == {m \in Msgs : mb[m].folder = "indexed"}

\* find_matches, the lookup for one pending stub: Story ID map first, then
\* fingerprint map (keys computed with StubRegistry.create_fingerprint)
stub_has_match(r, indexed) ==
    \/ /\ r.story_id # NoStory
       /\ \E m \in indexed : StoryOf(m) # NoStory /\ StoryOf(m) = r.story_id
    \/ /\ r.fingerprint # <<>>
       /\ \E m \in indexed : create_fingerprint(Subject(m), Received(m)) = r.fingerprint

\* find_matches: the pending stubs that found an indexed email, in registry order
find_matches(reg, indexed) ==
    SelectSeq(get_all_pending(reg), LAMBDA i : stub_has_match(reg[i], indexed))

(***************************************************************************)
(* State.                                                                  *)
(*   stubs    StubRegistry.stubs                                           *)
(*   peer     StubRegistry.stubs of a second process on the same document  *)
(*   disk     the registry document, as the list of dicts json holds       *)
(*   mailbox  the Outlook folders                                          *)
(*   nextId   the next EntryID Outlook hands out                           *)
(*   clock    the reading datetime.now() gives next                        *)
(*   stats    IngestionStats, and the counters of reconcile_stubs          *)
(*   run      the loop in progress: "idle", "ingest" (IngestionPipeline.   *)
(*            run) or "sweep" (reconcile_stubs), and what is left of it;   *)
(*            during a run of the pipeline also the registry it started    *)
(*            from                                                         *)
(*   last     the operation that ended last: its name, arguments, result   *)
(***************************************************************************)
ZeroStats == [total_emails_processed |-> 0, stubs_created |-> 0, stubs_completed |-> 0,
              errors |-> 0, complete_indexed |-> 0, failed |-> 0]

Op(name, ret, idx, msg, eid) ==
    [op |-> name, ret |-> ret, idx |-> idx, msg |-> msg, eid |-> eid]

Init ==
    /\ stubs = <<>>
    /\ disk = <<>>
    /\ mailbox = [m \in Msgs |-> [folder |-> "absent", eid |-> m]]
    /\ nextId = Cardinality(Msgs) + 1
    /\ clock = 1
    /\ stats = ZeroStats
    /\ peer = <<>>
    /\ run = [mode |-> "idle", queue |-> <<>>]
    /\ last = Op("init", FALSE, 0, 0, NoId)

\* the EntryIDs the registry's operations are called with
EntryIds == {1, 2}

\* A message is delivered to the source folder.
Arrive(m) ==
    /\ run.mode = "idle"
    /\ mailbox[m].folder = "absent"
    /\ mailbox' = [mailbox EXCEPT ![m].folder = "source"]
    /\ last' = Op("arrive", TRUE, 0, m, mailbox[m].eid)
    /\ UNCHANGED <<stubs, disk, nextId, clock, stats, run, peer>>

(***************************************************************************)
(* The registry's own operations, called with any arguments.               *)
(***************************************************************************)
\* StubRegistry.add_stub(stub_entry), the entry built for stub message m with
\* EntryID eid as IngestionPipeline._process_stub builds it
Register(eid, m) ==
    LET entry == StubEntry(eid, StoryOf(m), create_fingerprint(Subject(m), Received(m)),
                           Subject(m), Received(m))
    IN /\ run.mode = "idle"
       /\ IsStub(m)
       /\ Len(stubs) < MaxStubs \/ ~add_stub_ret(stubs, entry)
       /\ stubs' = add_stub(stubs, entry)
       /\ disk' = IF add_stub_ret(stubs, entry) THEN save(stubs') ELSE disk
       /\ last' = Op("register", add_stub_ret(stubs, entry), 0, m, eid)
       /\ UNCHANGED <<mailbox, nextId, clock, stats, run, peer>>

\* StubRegistry.update_status(outlook_entry_id, new_status, completed_at)
UpdateStatus(eid, new_status, given) ==
    /\ run.mode = "idle"
    /\ clock <= MaxClock
    /\ stubs' = update_status(stubs, eid, new_status,
                              IF given THEN Now(clock) ELSE NoTime, Now(clock))
    /\ disk' = IF update_status_ret(stubs, eid) THEN save(stubs') ELSE disk
    /\ clock' = IF update_status_ret(stubs, eid) THEN clock + 1 ELSE clock
    /\ last' = Op("update_status", update_status_ret(stubs, eid), 0, 0, eid)
    /\ UNCHANGED <<mailbox, nextId, stats, run, peer>>

\* StubRegistry.update_stub_entry_id(old_entry_id, new_entry_id)
UpdateExternalId(old, new) ==
    /\ run.mode = "idle"
    /\ stubs' = update_stub_entry_id(stubs, old, new)
    /\ disk' = IF update_stub_entry_id_ret(stubs, old) THEN save(stubs') ELSE disk
    /\ last' = Op("update_external_id", update_stub_entry_id_ret(stubs, old), 0, 0, old)
                   @@ [new_entry_id |-> new]
    /\ UNCHANGED <<mailbox, nextId, clock, stats, run, peer>>

\* StubRegistry.__init__ of a new process: the registry is loaded from the document
Restart ==
    /\ run.mode = "idle"
    /\ stubs' = load(disk)
    /\ last' = Op("restart", TRUE, 0, 0, NoId)
    /\ UNCHANGED <<disk, mailbox, nextId, clock, stats, run, peer>>

(***************************************************************************)
(* The manager and the matcher, called on their own.                       *)
(***************************************************************************)
\* process_stub taking the new record out again when the move fails
ProcessStub_rollback(m, ok) ==
    LET eid == mailbox[m].eid
        entry == StubEntry(eid, StoryOf(m), get_fingerprint(Subject(m), Received(m)),
                           Subject(m), Received(m))
        moved == move_email_ret(mailbox, eid, ok, nextId)
    IN /\ run.mode = "idle"
       /\ mailbox[m].folder = "source"
       /\ IsStub(m)
       /\ stubs' = IF moved THEN add_stub(stubs, entry) ELSE stubs
       /\ disk' = IF moved /\ add_stub_ret(stubs, entry) THEN save(stubs') ELSE disk
       /\ mailbox' = move_email(mailbox, eid, "stubs", ok, nextId)
       /\ nextId' = NextFresh(mailbox, eid, ok, nextId)
       /\ last' = Op("process_stub", moved, get_stub_by_id(stubs', eid), m, eid)
       /\ UNCHANGED <<clock, stats, run, peer>>

\* StubManager.process_stub(email_document, outlook_extractor) on message m of
\* the source folder
ProcessStub(m, ok) ==
    LET eid == mailbox[m].eid
        entry == StubEntry(eid, StoryOf(m), get_fingerprint(Subject(m), Received(m)),
                           Subject(m), Received(m))
    IN /\ run.mode = "idle"
       /\ mailbox[m].folder = "source"
       /\ IsStub(m)
       \* register_stub: a duplicate hands back the existing entry, and the move follows
       /\ stubs' = add_stub(stubs, entry)
       /\ disk' = IF add_stub_ret(stubs, entry) THEN save(stubs') ELSE disk
       /\ mailbox' = move_email(mailbox, eid, "stubs", ok, nextId)
       /\ nextId' = NextFresh(mailbox, eid, ok, nextId)
       /\ last' = Op("process_stub", move_email_ret(mailbox, eid, ok, nextId),
                     get_stub_by_id(stubs', eid), m, eid)
       /\ UNCHANGED <<clock, stats, run, peer>>

\* StubMatcher.complete_stub(stub_entry, outlook_extractor) on the i-th record
CompleteStub(i, ok) ==
    /\ run.mode = "idle"
    /\ clock <= MaxClock
    /\ stubs' = complete_stub_reg(stubs, mailbox, i, ok, nextId, Now(clock))
    /\ disk' = IF complete_stub_ret(stubs, mailbox, i, ok, nextId) THEN save(stubs') ELSE disk
    /\ mailbox' = complete_stub_mb(stubs, mailbox, i, ok, nextId)
    /\ nextId' = NextFresh(mailbox, stubs[i].outlook_entry_id, ok, nextId)
    /\ clock' = IF complete_stub_ret(stubs, mailbox, i, ok, nextId) THEN clock + 1 ELSE clock
    /\ last' = Op("complete_stub", complete_stub_ret(stubs, mailbox, i, ok, nextId),
                  i, GetItemFromID(mailbox, stubs[i].outlook_entry_id),
                  stubs[i].outlook_entry_id)
    /\ UNCHANGED <<stats, run, peer>>

\* StubMatcher.complete_stub on the i-th record when the move succeeds and the
\* write of the document fails: save catches the exception and returns False,
\* update_status does not look at that and returns True, so the record is
\* completed in memory only
CompleteStubUnsaved(i) ==
    /\ run.mode = "idle"
    /\ clock <= MaxClock
    /\ complete_stub_ret(stubs, mailbox, i, TRUE, nextId)
    /\ stubs' = complete_stub_reg(stubs, mailbox, i, TRUE, nextId, Now(clock))
    /\ mailbox' = complete_stub_mb(stubs, mailbox, i, TRUE, nextId)
    /\ nextId' = NextFresh(mailbox, stubs[i].outlook_entry_id, TRUE, nextId)
    /\ clock' = clock + 1
    /\ last' = Op("complete_stub_unsaved", TRUE, i,
                  GetItemFromID(mailbox, stubs[i].outlook_entry_id),
                  stubs[i].outlook_entry_id)
    /\ UNCHANGED <<disk, stats, run, peer>>

\* StubMatcher.process_complete_email(email_document, outlook_extractor) on
\* message m of the source folder
ProcessCompleteEmail(m, ok) ==
    LET i == find_matching_stub(stubs, StoryOf(m),
                                get_fingerprint(Subject(m), Received(m)))
    IN /\ run.mode = "idle"
       /\ mailbox[m].folder = "source"
       /\ ~IsStub(m)
       /\ clock <= MaxClock
       /\ IF i = 0
          THEN /\ last' = Op("process_complete_email", FALSE, 0, m, mailbox[m].eid)
               /\ UNCHANGED <<stubs, disk, mailbox, nextId, clock>>
          ELSE /\ stubs' = complete_stub_reg(stubs, mailbox, i, ok, nextId, Now(clock))
               /\ disk' = IF complete_stub_ret(stubs, mailbox, i, ok, nextId)
                          THEN save(stubs') ELSE disk
               /\ mailbox' = complete_stub_mb(stubs, mailbox, i, ok, nextId)
               /\ nextId' = NextFresh(mailbox, stubs[i].outlook_entry_id, ok, nextId)
               /\ clock' = IF complete_stub_ret(stubs, mailbox, i, ok, nextId)
                           THEN clock + 1 ELSE clock
               /\ last' = Op("process_complete_email",
                             complete_stub_ret(stubs, mailbox, i, ok, nextId),
                             i, m, mailbox[m].eid)
       /\ UNCHANGED <<stats, run, peer>>

(***************************************************************************)
(* IngestionPipeline.run: the emails of the source folder, one at a time.  *)
(***************************************************************************)
\* run, up to the loop: the statistics start again and the emails are extracted
RunStart ==
    /\ run.mode = "idle"
    /\ run' = [mode |-> "ingest", queue |-> extract_emails(mailbox),
                registry_at_start |-> stubs]
    /\ stats' = [ZeroStats EXCEPT
                     !.total_emails_processed = Len(extract_emails(mailbox))]
    /\ last' = Op("run_start", TRUE, 0, 0, NoId)
    /\ UNCHANGED <<stubs, disk, mailbox, nextId, clock, peer>>

\* _process_stub letting its exception through to the handler of run as well,
\* which counts it again
PipelineStub_reraise(m, eid, ok) ==
    LET entry == StubEntry(eid, StoryOf(m), create_fingerprint(Subject(m), Received(m)),
                           Subject(m), Received(m))
    IN /\ stubs' = add_stub(stubs, entry)
       /\ disk' = IF add_stub_ret(stubs, entry) THEN save(stubs') ELSE disk
       /\ mailbox' = move_email(mailbox, eid, "stubs", ok, nextId)
       /\ nextId' = NextFresh(mailbox, eid, ok, nextId)
       /\ stats' = [stats EXCEPT !.errors = @ + 2]
       /\ last' = Op("pipeline_stub", FALSE, get_stub_by_id(stubs', eid), m, eid)
       /\ UNCHANGED <<clock, peer>>

\* IngestionPipeline._process_stub(raw_email) for message m, extracted with
\* EntryID eid.  move_to_stubs returns a bool, so unpacking it into
\* (success, new_entry_id) raises TypeError whatever the move did; the handler
\* of _process_stub counts the error.
PipelineStub(m, eid, ok) ==
    LET entry == StubEntry(eid, StoryOf(m), create_fingerprint(Subject(m), Received(m)),
                           Subject(m), Received(m))
    IN /\ stubs' = add_stub(stubs, entry)
       /\ disk' = IF add_stub_ret(stubs, entry) THEN save(stubs') ELSE disk
       /\ mailbox' = move_email(mailbox, eid, "stubs", ok, nextId)
       /\ nextId' = NextFresh(mailbox, eid, ok, nextId)
       /\ stats' = [stats EXCEPT !.errors = @ + 1]
       /\ last' = Op("pipeline_stub", FALSE, get_stub_by_id(stubs', eid), m, eid)
       /\ UNCHANGED <<clock, peer>>

\* IngestionPipeline._process_complete(raw_email) for message m, extracted with
\* EntryID eid: match, complete the matched stub, embed and index (embedded =
\* FALSE: a step of 5-7 raised), move to /indexed/.  As in _process_stub, the
\* unpacking of move_to_indexed's bool raises TypeError and the error is counted.
PipelineComplete(m, eid, okStub, embedded, okIndexed) ==
    LET i == pipeline_match(stubs, StoryOf(m), get_fingerprint(Subject(m), Received(m)))
        done == i # 0 /\ complete_stub_ret(stubs, mailbox, i, okStub, nextId)
        mb1 == IF i # 0 THEN complete_stub_mb(stubs, mailbox, i, okStub, nextId) ELSE mailbox
        id1 == IF i # 0
               THEN NextFresh(mailbox, stubs[i].outlook_entry_id, okStub, nextId)
               ELSE nextId
    IN /\ clock <= MaxClock
       /\ stubs' = IF i # 0
                   THEN complete_stub_reg(stubs, mailbox, i, okStub, nextId, Now(clock))
                   ELSE stubs
       /\ disk' = IF done THEN save(stubs') ELSE disk
       /\ clock' = IF done THEN clock + 1 ELSE clock
       /\ mailbox' = IF embedded THEN move_email(mb1, eid, "indexed", okIndexed, id1) ELSE mb1
       /\ nextId' = IF embedded THEN NextFresh(mb1, eid, okIndexed, id1) ELSE id1
       /\ stats' = [stats EXCEPT !.stubs_completed = IF done THEN @ + 1 ELSE @,
                                 !.errors = @ + 1]
       /\ last' = Op("pipeline_complete", done, i, m, eid)
       /\ UNCHANGED peer

\* one turn of the loop of run: _process_email on the next extracted email
ProcessEmail ==
    /\ run.mode = "ingest"
    /\ run.queue # <<>>
    /\ run' = [run EXCEPT !.queue = Tail(@)]
    /\ LET m == Head(run.queue)[1]
           eid == Head(run.queue)[2]
       IN IF IsStub(m)
          THEN \E ok \in BOOLEAN : PipelineStub(m, eid, ok)
          ELSE \E okStub, embedded, okIndexed \in BOOLEAN :
                   PipelineComplete(m, eid, okStub, embedded, okIndexed)

\* run, after the loop: the final report
RunEnd ==
    /\ run.mode = "ingest"
    /\ run.queue = <<>>
    /\ run' = [mode |-> "idle", queue |-> <<>>]
    /\ last' = Op("run_end", TRUE, 0, 0, NoId)
    /\ UNCHANGED <<stubs, disk, mailbox, nextId, clock, stats, peer>>

(***************************************************************************)
(* scripts/reconcile_stubs.py, main without --dry-run.                     *)
(***************************************************************************)
\* main, steps 1 to 3: it returns at once when /indexed/ is empty, when no stub
\* is pending or when nothing matches
SweepStart ==
    LET matches == IF indexed_emails(mailbox) = {} \/ get_all_pending(stubs) = <<>>
                   THEN <<>>
                   ELSE find_matches(stubs, indexed_emails(mailbox))
    IN /\ run.mode = "idle"
       /\ run' = IF matches = <<>> THEN run ELSE [mode |-> "sweep", queue |-> matches]
       /\ stats' = IF matches = <<>> THEN stats ELSE ZeroStats
       /\ last' = Op("sweep_start", matches # <<>>, 0, 0, NoId)
       /\ UNCHANGED <<stubs, disk, mailbox, nextId, clock, peer>>

\* reconcile_stubs, one turn of its loop: complete_stub on the next match
SweepStep(ok) ==
    LET i == Head(run.queue)
        done == complete_stub_ret(stubs, mailbox, i, ok, nextId)
    IN /\ run.mode = "sweep"
       /\ run.queue # <<>>
       /\ clock <= MaxClock
       /\ run' = [run EXCEPT !.queue = Tail(@)]
       /\ stubs' = complete_stub_reg(stubs, mailbox, i, ok, nextId, Now(clock))
       /\ disk' = IF done THEN save(stubs') ELSE disk
       /\ mailbox' = complete_stub_mb(stubs, mailbox, i, ok, nextId)
       /\ nextId' = NextFresh(mailbox, stubs[i].outlook_entry_id, ok, nextId)
       /\ clock' = IF done THEN clock + 1 ELSE clock
       /\ stats' = [stats EXCEPT !.stubs_completed = IF done THEN @ + 1 ELSE @,
                                 !.failed = IF done THEN @ ELSE @ + 1]
       /\ last' = Op("sweep_step", done, i, 0, stubs[i].outlook_entry_id) @@ [ok |-> ok]
       /\ UNCHANGED peer

\* main, after reconcile_stubs: the summary
SweepEnd ==
    /\ run.mode = "sweep"
    /\ run.queue = <<>>
    /\ run' = [mode |-> "idle", queue |-> <<>>]
    /\ last' = Op("sweep_end", TRUE, 0, 0, NoId)
    /\ UNCHANGED <<stubs, disk, mailbox, nextId, clock, stats, peer>>

(***************************************************************************)
(* Specifications.                                                         *)
(***************************************************************************)
\* the pipeline, the reconciliation script, the manager and the matcher
SystemNext ==
    \/ \E m \in Msgs : Arrive(m)
    \/ RunStart
    \/ ProcessEmail
    \/ RunEnd
    \/ SweepStart
    \/ \E ok \in BOOLEAN : SweepStep(ok)
    \/ SweepEnd
    \/ \E m \in Msgs, ok \in BOOLEAN : ProcessStub(m, ok)
    \/ \E m \in Msgs, ok \in BOOLEAN : ProcessCompleteEmail(m, ok)
    \/ \E i \in 1..Len(stubs), ok \in BOOLEAN : CompleteStub(i, ok)
    \/ \E i \in 1..Len(stubs) : CompleteStubUnsaved(i)
    \/ Restart

\* the registry called directly
RegistryNext ==
    \/ \E eid \in EntryIds, m \in Msgs : Register(eid, m)
    \/ \E eid \in EntryIds, st \in {"pending", "completed"}, given \in BOOLEAN :
           UpdateStatus(eid, st, given)
    \/ \E old \in EntryIds, new \in EntryIds : UpdateExternalId(old, new)

Next == SystemNext

Spec == Init /\ [][Next]_vars

SpecRegistry == Init /\ [][RegistryNext \/ Restart]_vars

(***************************************************************************)
(* Properties.                                                             *)
(***************************************************************************)
\* number of records with the given status
CountStatus(reg, st) == Cardinality({i \in 1..Len(reg) : reg[i].status = st})

\* the Story IDs and fingerprints a lookup can be asked for
StoryKeys == {StoryOf(m) : m \in Msgs} \ {NoStory}
FingerprintKeys ==
    {create_fingerprint(Subject(m), Received(m)) : m \in Msgs}
        \cup {get_fingerprint(Subject(m), Received(m)) : m \in Msgs}

\* the least index of a pending record satisfying the key test, 0 when there is none
FirstPendingWith(reg, hits) ==
    LET S == {i \in 1..Len(reg) : reg[i].status = "pending" /\ i \in hits}
    IN IF S = {} THEN 0 ELSE CHOOSE i \in S : \A j \in S : i <= j

WithStory(reg, story) == {i \in 1..Len(reg) : reg[i].story_id = story}
WithFingerprint(reg, fp) == {i \in 1..Len(reg) : reg[i].fingerprint = fp}

\* C1 (Scenario C): when the registry holds exactly the PENDING record of a stub
\* with subject S (no prefix) received on day D, ingesting the complete message
\* "(X) S" of the same day without Story ID leaves exactly one COMPLETED record
\* and no PENDING record.
C1_ScenarioC ==
    [][(/\ Len(stubs) = 1
        /\ stubs[1].status = "pending"
        /\ stubs[1].subject = SubjF
        /\ DateStr(stubs[1].received_time) = DateStr(Received(2))
        /\ last'.op \in {"pipeline_complete", "process_complete_email"}
        /\ last'.msg = 2)
       => (CountStatus(stubs', "completed") = 1 /\ CountStatus(stubs', "pending") = 0)]_vars

\* C2: after a successful complete_stub the stub's message is in the archive
\* folder, the record carries the EntryID the message has there, and the record
\* is COMPLETED with completed_at set.
C2_CompleteRefreshesId ==
    (last.op = "complete_stub" /\ last.ret)
    => /\ mailbox[last.msg].folder = "processed"
       /\ stubs[last.idx].outlook_entry_id = mailbox[last.msg].eid
       /\ stubs[last.idx].status = "completed"
       /\ stubs[last.idx].completed_at # NoTime

\* C3: after a successful process_stub the registry holds a PENDING record whose
\* EntryID is the one the message has in the holding folder.
C3_IntakeRefreshesId ==
    (last.op = "process_stub" /\ last.ret)
    => \E i \in 1..Len(stubs) :
           /\ stubs[i].status = "pending"
           /\ stubs[i].outlook_entry_id = mailbox[last.msg].eid

\* C4: a record that is COMPLETED stays COMPLETED in every step.
C4_OneWay ==
    [][\A i \in 1..Len(stubs) :
           stubs[i].status = "completed"
           => (i <= Len(stubs') /\ stubs'[i].status = "completed")]_vars

\* C5: in every registry state find_by_story_id and find_by_fingerprint return
\* the first PENDING record carrying the key, in registry order, or nothing;
\* never a COMPLETED record.
C5_FindFirstPending ==
    /\ \A k \in StoryKeys :
           /\ find_by_story_id(stubs, k) = FirstPendingWith(stubs, WithStory(stubs, k))
           /\ find_by_story_id(stubs, k) # 0
              => stubs[find_by_story_id(stubs, k)].status = "pending"
    /\ \A k \in FingerprintKeys :
           /\ find_by_fingerprint(stubs, k)
                  = FirstPendingWith(stubs, WithFingerprint(stubs, k))
           /\ find_by_fingerprint(stubs, k) # 0
              => stubs[find_by_fingerprint(stubs, k)].status = "pending"

\* C5 witness: a COMPLETED record precedes a PENDING record with the same
\* fingerprint, and the lookup returns the PENDING one.
C5_Witness ==
    /\ Len(stubs) = 2
    /\ stubs[1].status = "completed"
    /\ stubs[2].status = "pending"
    /\ stubs[1].fingerprint = stubs[2].fingerprint
    /\ find_by_fingerprint(stubs, stubs[1].fingerprint) = 2

\* C6: register with an EntryID no record carries returns true and appends one
\* PENDING record with it; register with an EntryID a record carries returns
\* false and leaves the size; so two calls with the same EntryID return true
\* then false and grow the registry by exactly one.
C6_RegisterOnce ==
    [][/\ last'.op = "register"
          => IF \A i \in 1..Len(stubs) : stubs[i].outlook_entry_id # last'.eid
             THEN /\ last'.ret
                  /\ Len(stubs') = Len(stubs) + 1
                  /\ SubSeq(stubs', 1, Len(stubs)) = stubs
                  /\ stubs'[Len(stubs')].outlook_entry_id = last'.eid
                  /\ stubs'[Len(stubs')].status = "pending"
             ELSE /\ ~last'.ret
                  /\ Len(stubs') = Len(stubs)
       /\ (/\ last.op = "register"
           /\ last.ret
           /\ last'.op = "register"
           /\ last'.eid = last.eid)
          => (~last'.ret /\ Len(stubs') = Len(stubs))]_vars

\* C6 witness: a register was just rejected for the EntryID the only record carries.
C6_Witness ==
    /\ last.op = "register"
    /\ ~last.ret
    /\ Len(stubs) = 1
    /\ stubs[1].outlook_entry_id = last.eid

\* C7: a register rejected as a duplicate changes neither a record, nor the
\* number or order of the records, nor the persisted document.
C7_DuplicateNoOp ==
    [][(last'.op = "register" /\ ~last'.ret) => (stubs' = stubs /\ disk' = disk)]_vars

\* C7 witness: a register was rejected for an EntryID whose record is COMPLETED
\* and was built from another message than the one offered.
C7_Witness ==
    /\ last.op = "register"
    /\ ~last.ret
    /\ \E i \in 1..Len(stubs) :
           /\ stubs[i].outlook_entry_id = last.eid
           /\ stubs[i].status = "completed"
           /\ stubs[i].subject # Subject(last.msg)

\* C8: complete_stub called again on the record a call just completed changes
\* no record, not the document and not the folders.
C8_CompleteTwice ==
    [][(/\ last.op = "complete_stub"
        /\ last.ret
        /\ stubs[last.idx].status = "completed"
        /\ last'.op = "complete_stub"
        /\ last'.idx = last.idx)
       => (stubs' = stubs /\ disk' = disk /\ mailbox' = mailbox)]_vars

\* C8 witness: complete_stub was called on a COMPLETED record whose message is
\* in the archive folder, and returned false.
C8_Witness ==
    /\ last.op = "complete_stub"
    /\ ~last.ret
    /\ stubs[last.idx].status = "completed"
    /\ \E m \in Msgs : mailbox[m].folder = "processed"

\* C9 (Scenario D): when the registry holds one record, PENDING, its stub sits
\* in the holding folder and its complete message sits in /indexed/, the sweep
\* completes the record; and a sweep started right after the sweep that
\* completed it ended matches nothing and changes nothing.
C9_SweepCompletes ==
    [][/\ (/\ last'.op = "sweep_step"
           /\ Len(stubs) = 1
           /\ stubs[1].status = "pending"
           /\ \E m \in Msgs : /\ mailbox[m].folder = "stubs"
                              /\ stubs[1].subject = Subject(m)
                              /\ stubs[1].received_time = Received(m))
          => stubs'[1].status = "completed"
       /\ (/\ last.op = "sweep_end"
           /\ last'.op = "sweep_start"
           /\ Len(stubs) = 1
           /\ stubs[1].status = "completed")
          => (~last'.ret /\ stubs' = stubs /\ mailbox' = mailbox)]_vars

\* C10: find_matching_stub (and the pipeline's inlined copy) returns the first
\* PENDING record with the document's Story ID when the document has one and
\* such a record exists, whatever the fingerprint matches; otherwise the first
\* PENDING record with the document's fingerprint; otherwise nothing.
C10_StoryIdFirst ==
    \A story \in StoryKeys \cup {NoStory}, fp \in FingerprintKeys :
        LET byStory == IF story = NoStory THEN 0
                       ELSE FirstPendingWith(stubs, WithStory(stubs, story))
            expected == IF byStory # 0 THEN byStory
                        ELSE FirstPendingWith(stubs, WithFingerprint(stubs, fp))
        IN /\ find_matching_stub(stubs, story, fp) = expected
           /\ pipeline_match(stubs, story, fp) = expected

\* C10 witness: the document of message 4 matches the first record by
\* fingerprint and the second by Story ID, and the second is returned.
C10_Witness ==
    /\ Len(stubs) = 2
    /\ stubs[1].status = "pending"
    /\ stubs[2].status = "pending"
    /\ stubs[1].fingerprint = get_fingerprint(Subject(4), Received(4))
    /\ stubs[1].story_id # StoryOf(4)
    /\ stubs[2].story_id = StoryOf(4)
    /\ find_matching_stub(stubs, StoryOf(4), get_fingerprint(Subject(4), Received(4))) = 2

(***************************************************************************)
(* The fingerprint function called on its own: a subject and a received    *)
(* date are drawn, then create_fingerprint is applied to the subject as it *)
(* is and to the subject behind a bracketed all-caps prefix.               *)
(***************************************************************************)
\* longest subject drawn
MaxSubjectLen == 3

SubjectChars == {"(", ")", "X", "f", " "}
Subjects == UNION {[1..k -> SubjectChars] : k \in 0..MaxSubjectLen}
Prefixes == {<<"(", "X", ")">>, <<"(", "F", ")">>, <<"(", "X", "F", ")">>}
Dates == {<<15, 1, 0>>, <<16, 23, 7>>}

InitFingerprint ==
    /\ stubs = <<>>
    /\ disk = <<>>
    /\ mailbox = [m \in Msgs |-> [folder |-> "absent", eid |-> m]]
    /\ nextId = Cardinality(Msgs) + 1
    /\ clock = 1
    /\ stats = ZeroStats
    /\ peer = <<>>
    /\ run = [mode |-> "idle", queue |-> <<>>]
    /\ \E s \in Subjects, d \in Dates :
           last = [op |-> "subject", subject |-> s, received |-> d]

\* StubRegistry.create_fingerprint(subject, d),
\* StubRegistry.create_fingerprint(p + " " + subject, d) and
\* EmailDocument(subject=subject, received_date=d).get_fingerprint()
Fingerprint(p) ==
    /\ last.op = "subject"
    /\ last' = [op |-> "create_fingerprint",
                subject |-> last.subject,
                received |-> last.received,
                prefix |-> p,
                plain |-> create_fingerprint(last.subject, last.received),
                document |-> get_fingerprint(last.subject, last.received),
                prefixed |-> create_fingerprint(p \o <<" ">> \o last.subject,
                                                last.received)]
    /\ UNCHANGED <<stubs, disk, mailbox, nextId, clock, stats, run, peer>>

\* bracketed tokens that are not all-caps tokens at the start of the subject:
\* lower case, mixed case, and an all-caps token behind a space
OtherPrefixes == {<<"(", "x", ")">>, <<"(", "X", "f", ")">>, <<" ", "(", "X", ")">>}

\* StubRegistry.normalize_subject(subject) and
\* StubRegistry.normalize_subject(p + " " + subject)
Normalize(p) ==
    /\ last.op = "subject"
    /\ last' = [op |-> "normalize_subject",
                subject |-> last.subject,
                prefix |-> p,
                plain |-> normalize_subject(last.subject),
                prefixed |-> normalize_subject(p \o <<" ">> \o last.subject)]
    /\ UNCHANGED <<stubs, disk, mailbox, nextId, clock, stats, run, peer>>

SpecFingerprint ==
    InitFingerprint
        /\ [][\/ \E p \in Prefixes : Fingerprint(p)
              \/ \E p \in Prefixes \cup OtherPrefixes : Normalize(p)]_vars

\* C11 as stated: for every subject, with or without a bracketed token of its
\* own, every date and every bracketed all-caps prefix, the fingerprint of the
\* subject equals the fingerprint of the prefixed subject.
C11_PrefixInvariant ==
    last.op = "create_fingerprint" => last.plain = last.prefixed

\* C11 amended: the same for every subject that does not itself start with a
\* bracketed all-caps token.
C11_PrefixInvariantOnce ==
    (last.op = "create_fingerprint" /\ ~HasPrefix(last.subject))
    => last.plain = last.prefixed

\* C11 witness: a subject holding a capital letter and no bracketed token was
\* fingerprinted with and without a prefix, and the two results agree.
C11_Witness ==
    /\ last.op = "create_fingerprint"
    /\ ~HasPrefix(last.subject)
    /\ \E i \in 1..Len(last.subject) : last.subject[i] = "X"
    /\ last.plain = last.prefixed

C13_UpdateStatusAbsent ==
    [][(/\ last'.op = "update_status"
        /\ \A i \in 1..Len(stubs) : stubs[i].outlook_entry_id # last'.eid)
       => (~last'.ret /\ stubs' = stubs /\ disk' = disk)]_vars

\* C13 witness: update_status returned false on a registry that holds a record,
\* with another EntryID.
C13_Witness ==
    /\ last.op = "update_status"
    /\ ~last.ret
    /\ Len(stubs) >= 1
    /\ \A i \in 1..Len(stubs) : stubs[i].outlook_entry_id # last.eid

MaxBodyLines == 4

LineKinds == {"disclaimer", "button", "sentinel", "byline", "source", "alert",
              "tickers", "blank", "p1", "p198", "p497", "p498"}

Bodies == UNION {[1..n -> LineKinds] : n \in 1..MaxBodyLines}

\* len() of a line
LineLen(k) ==
    CASE k = "disclaimer" -> 28
      [] k = "button" -> 17
      [] k = "sentinel" -> 18
      [] k = "byline" -> 9
      [] k = "source" -> 9
      [] k = "alert" -> 6
      [] k = "tickers" -> 7
      [] k = "blank" -> 0
      [] k = "p1" -> 1
      [] k = "p198" -> 198
      [] k = "p497" -> 497
      [] k = "p498" -> 498
      [] k = "caution" -> 14

\* whether the line starts with a character of [A-Z] under re.IGNORECASE
StartsWithLetter(k) == k \notin {"sentinel", "blank", "caution"}

RECURSIVE TextLen(_)
\* len() of a text: its lines and the "\n" between them
TextLen(t) ==
    IF t = <<>> THEN 0
    ELSE IF Len(t) = 1 THEN LineLen(t[1])
    ELSE LineLen(t[1]) + 1 + TextLen(Tail(t))

\* index in the text of the first character of line i
LineStart(t, i) == IF i = 1 THEN 0 ELSE TextLen(SubSeq(t, 1, i - 1)) + 1

\* the first line from line i on whose kind is in S, 0 when there is none
FirstFrom(t, i, S) ==
    LET H == {j \in i..Len(t) : t[j] \in S}
    IN IF H = {} THEN 0 ELSE CHOOSE j \in H : \A h \in H : j <= h

RECURSIVE LStripBlank(_)
LStripBlank(t) ==
    IF t # <<>> /\ Head(t) = "blank" THEN LStripBlank(Tail(t)) ELSE t

RECURSIVE RStripBlank(_)
RStripBlank(t) ==
    IF t # <<>> /\ t[Len(t)] = "blank"
    THEN RStripBlank(SubSeq(t, 1, Len(t) - 1))
    ELSE t

\* str.strip() of a text whose lines carry no whitespace of their own
StripBlank(t) == RStripBlank(LStripBlank(t))

RECURSIVE CollapseBlank(_)
\* two or more empty lines in a row become one: re.sub(r'^\s*$', '', ...,
\* re.MULTILINE) in _remove_headers and re.sub(r'\n{3,}', '\n\n', ...) in
\* normalize_whitespace
CollapseBlank(t) ==
    IF Len(t) < 2 THEN t
    ELSE IF t[1] = "blank" /\ t[2] = "blank" THEN CollapseBlank(Tail(t))
    ELSE <<t[1]>> \o CollapseBlank(Tail(t))

RECURSIVE BlankRunStart(_, _, _)
\* the first line of the run of empty lines that ends right before line i and
\* starts no earlier than line lo: where a match of ^\s*... that reaches line i
\* starts
BlankRunStart(t, i, lo) ==
    IF i > lo /\ t[i - 1] = "blank" THEN BlankRunStart(t, i - 1, lo) ELSE i

RECURSIVE sub_disclaimer_button(_)
\* re.sub(r'External Email\s*-\s*Be CAUTIOUS.*?button\.', '', body, DOTALL)
sub_disclaimer_button(t) ==
    LET i == FirstFrom(t, 1, {"disclaimer"})
        j == IF i = 0 THEN 0 ELSE FirstFrom(t, i, {"button"})
    IN IF j = 0 THEN t
       ELSE SubSeq(t, 1, i - 1) \o <<"blank">>
                \o sub_disclaimer_button(SubSeq(t, j + 1, Len(t)))

\* the first line k from line i on that is followed by "\n\n" or by "\n" and a
\* letter: the lookahead (?=\n\n|\n[A-Z]); 0 when there is none
StopAfter(t, i) ==
    LET H == {k \in i..(Len(t) - 1) :
                 \/ StartsWithLetter(t[k + 1])
                 \/ (t[k + 1] = "blank" /\ k + 2 <= Len(t))}
    IN IF H = {} THEN 0 ELSE CHOOSE k \in H : \A h \in H : k <= h

RECURSIVE sub_disclaimer_paragraph(_)
\* re.sub(r'External Email.*?(?=\n\n|\n[A-Z])', '', body, IGNORECASE | DOTALL)
sub_disclaimer_paragraph(t) ==
    LET i == FirstFrom(t, 1, {"disclaimer"})
        k == IF i = 0 THEN 0 ELSE StopAfter(t, i)
    IN IF k = 0 THEN t
       ELSE SubSeq(t, 1, i - 1) \o <<"blank">>
                \o sub_disclaimer_paragraph(SubSeq(t, k + 1, Len(t)))

\* StubDetector._remove_email_disclaimer
remove_email_disclaimer(body) ==
    StripBlank(sub_disclaimer_paragraph(sub_disclaimer_button(body)))

\* StubDetector._has_bloomberg_article_pattern
has_bloomberg_article_pattern(body) ==
    \E i \in 1..Len(body) : body[i] = "sentinel"

\* the characters a match of the author pattern takes on a byline: "By Jo D"
AuthorMatchLen == 7
\* body[:500] in _has_author_at_start
first_part_len == 500

\* StubDetector._has_author_at_start
has_author_at_start(body) ==
    \E i \in 1..Len(body) :
        /\ body[i] = "byline"
        /\ LineStart(body, i) + AuthorMatchLen <= first_part_len

NoPosition == -1

\* StubDetector._find_source_position: match.start() of ^\s*Source:\s*
find_source_position(body) ==
    LET s == FirstFrom(body, 1, {"source"})
    IN IF s = 0 THEN NoPosition ELSE LineStart(body, BlankRunStart(body, s, 1))

\* StubDetector._remove_headers
remove_headers(text) == StripBlank(CollapseBlank(text))

\* the lines that match ^\s*marker\s*:?\s*$ for a marker of
\* metadata_markers + ["Alert", "To suspend", "To modify"]
MetadataLines == {"tickers", "alert"}

\* StubDetector._extract_content_after_source
extract_content_after_source(body, source_position) ==
    LET b == CHOOSE i \in 1..Len(body) : LineStart(body, i) = source_position
        m == FirstFrom(body, b + 1, MetadataLines)
        r == IF m = 0 THEN Len(body) + 1 ELSE BlankRunStart(body, m, b + 1)
    IN remove_headers(StripBlank(SubSeq(body, b + 1, r - 1)))

\* ContentCleaner.remove_disclaimers: the phrase "External Email" is removed
remove_disclaimers(text) ==
    [i \in 1..Len(text) |-> IF text[i] = "disclaimer" THEN "caution" ELSE text[i]]

\* ContentCleaner.normalize_whitespace
normalize_whitespace(text) == CollapseBlank(text)

\* ContentCleaner.clean(raw_body), before its closing strip()
clean(raw_body) == normalize_whitespace(remove_disclaimers(raw_body))

\* len(text.strip()) of a cleaned text: its first line loses a leading space
StrippedLen(text) ==
    LET s == StripBlank(text)
    IN IF s # <<>> /\ s[1] = "caution" THEN TextLen(s) - 1 ELSE TextLen(s)

early_alert_threshold == 500
min_content_after_source == 200
min_complete_length == 500

\* detect_from_email with the length test of check 4 written <= instead of <
detect_from_email_inclusive(raw_body) ==
    LET body_for_analysis == remove_email_disclaimer(raw_body)
        source_position == find_source_position(body_for_analysis)
    IN IF has_bloomberg_article_pattern(body_for_analysis) THEN FALSE
       ELSE IF has_author_at_start(body_for_analysis) THEN FALSE
       ELSE IF source_position # NoPosition
       THEN IF source_position < early_alert_threshold
            THEN TextLen(extract_content_after_source(body_for_analysis, source_position))
                     < min_content_after_source
            ELSE FALSE
       ELSE StrippedLen(clean(raw_body)) <= min_complete_length

\* StubDetector.detect_from_email: TRUE for a stub
detect_from_email(raw_body) ==
    LET body_for_analysis == remove_email_disclaimer(raw_body)
        source_position == find_source_position(body_for_analysis)
    IN IF has_bloomberg_article_pattern(body_for_analysis) THEN FALSE
       ELSE IF has_author_at_start(body_for_analysis) THEN FALSE
       ELSE IF source_position # NoPosition
       THEN IF source_position < early_alert_threshold
            THEN TextLen(extract_content_after_source(body_for_analysis, source_position))
                     < min_content_after_source
            ELSE FALSE
       ELSE StrippedLen(clean(raw_body)) < min_complete_length

\* StubDetector.classify
classify(raw_body) == IF detect_from_email(raw_body) THEN "stub" ELSE "complete"

InitClassifier ==
    /\ stubs = <<>>
    /\ disk = <<>>
    /\ mailbox = [m \in Msgs |-> [folder |-> "absent", eid |-> m]]
    /\ nextId = Cardinality(Msgs) + 1
    /\ clock = 1
    /\ stats = ZeroStats
    /\ peer = <<>>
    /\ run = [mode |-> "idle", queue |-> <<>>]
    /\ \E b \in Bodies : last = [op |-> "body", body |-> b]

\* StubDetector.classify(raw_email) on the body drawn
Classify ==
    /\ last.op = "body"
    /\ last' = [op |-> "classify", body |-> last.body, ret |-> classify(last.body)]
    /\ UNCHANGED <<stubs, disk, mailbox, nextId, clock, stats, run, peer>>

SpecClassifier == InitClassifier /\ [][Classify]_vars

\* the operator markers "Alert:" and "Source:"
OperatorMarkers == {"alert", "source"}

\* whether neither the sentinel rule nor the byline rule fires on the body
NoSentinelNoByline(body) ==
    /\ ~has_bloomberg_article_pattern(remove_email_disclaimer(body))
    /\ ~has_author_at_start(remove_email_disclaimer(body))

\* C15: a body that contains the article-begins sentinel "(Bloomberg) --" is
\* classified COMPLETE, whatever else it holds.
C15_SentinelComplete ==
    (last.op = "classify" /\ \E i \in 1..Len(last.body) : last.body[i] = "sentinel")
    => last.ret = "complete"

\* C16: when neither the sentinel nor the byline rule fires, a body whose first
\* operator marker starts before character 500 and has fewer than 200
\* characters between its line and the first metadata line is a STUB, and a
\* body whose first operator marker starts at character 500 or later is
\* COMPLETE.  Positions are those of the body without its disclaimer.
C16_MarkerRule ==
    (last.op = "classify" /\ NoSentinelNoByline(last.body))
    => LET a == remove_email_disclaimer(last.body)
           mk == FirstFrom(a, 1, OperatorMarkers)
           tk == IF mk = 0 THEN 0 ELSE FirstFrom(a, mk + 1, {"tickers"})
       IN /\ (/\ mk # 0
              /\ LineStart(a, mk) < 500
              /\ tk # 0
              /\ TextLen(StripBlank(SubSeq(a, mk + 1, tk - 1))) < 200)
             => last.ret = "stub"
          /\ (mk # 0 /\ LineStart(a, mk) >= 500) => last.ret = "complete"

\* C17: when neither the sentinel nor the byline rule fires and the body
\* without its disclaimer holds no operator marker, the body is a STUB if its
\* cleaned text is shorter than 500 characters and COMPLETE otherwise.
C17_LengthFallback ==
    (/\ last.op = "classify"
     /\ NoSentinelNoByline(last.body)
     /\ FirstFrom(remove_email_disclaimer(last.body), 1, OperatorMarkers) = 0)
    => (last.ret = "stub" <=> StrippedLen(clean(last.body)) < 500)

\* C17 witness: a body of two lines of prose, no marker, whose cleaned text has
\* exactly 500 characters, was classified COMPLETE.
C17_Witness ==
    /\ last.op = "classify"
    /\ NoSentinelNoByline(last.body)
    /\ FirstFrom(remove_email_disclaimer(last.body), 1, OperatorMarkers) = 0
    /\ StrippedLen(clean(last.body)) = 500
    /\ last.ret = "complete"

C19_SummaryCounts ==
    [][last'.op = "run_end"
       => /\ stats.stubs_created = Len(stubs) - Len(run.registry_at_start)
          /\ stats.stubs_completed
                 = CountStatus(stubs, "completed")
                       - CountStatus(run.registry_at_start, "completed")]_vars

\* C20: no step of the pipeline, the manager, the matcher or the sweep removes a
\* record: the registry never gets shorter, and every record stays at its place
\* with its Story ID, fingerprint, subject and received time.
C20_NeverDeleted ==
    [][/\ Len(stubs') >= Len(stubs)
       /\ \A i \in 1..Len(stubs) :
              /\ stubs'[i].story_id = stubs[i].story_id
              /\ stubs'[i].fingerprint = stubs[i].fingerprint
              /\ stubs'[i].subject = stubs[i].subject
              /\ stubs'[i].received_time = stubs[i].received_time]_vars

\* C20 witness: a sweep completed a record of a registry of two records, and
\* both are still there.
C20_Witness ==
    /\ last.op = "sweep_step"
    /\ last.ret
    /\ Len(stubs) = 2
    /\ stubs[last.idx].status = "completed"

(***************************************************************************)
(* Two processes on one registry document.  Each constructed its           *)
(* StubRegistry from the same document (StubRegistry.__init__ calls load   *)
(* once) and then registers stubs and records completions; every           *)
(* successful call ends in save, which opens the file with mode 'w' and    *)
(* writes the caller's whole list.  stubs is the list of process 1, peer   *)
(* the list of process 2.                                                  *)
(***************************************************************************)
Procs == {1, 2}

\* the stubs the two processes take in, each as <<EntryID, message>>
Intake == {<<1, 1>>, <<2, 3>>, <<3, 1>>}

\* the EntryIDs the two processes complete
ProcEntryIds == {1, 2}

\* the documents the two processes can start from: none, or one pending stub
StartDocuments ==
    {<<>>,
     save(<<StubEntry(1, StoryOf(1), create_fingerprint(Subject(1), Received(1)),
                      Subject(1), Received(1))>>)}

\* self.stubs of process p
Reg(p) == IF p = 1 THEN stubs ELSE peer

\* self.stubs of process p after the step
RegNext(p) == IF p = 1 THEN stubs' ELSE peer'

\* StubRegistry.__init__ in both processes: load() when the document exists
InitConcurrent ==
    /\ \E doc \in StartDocuments :
           /\ disk = doc
           /\ stubs = load(doc)
           /\ peer = load(doc)
    /\ mailbox = [m \in Msgs |-> [folder |-> "absent", eid |-> m]]
    /\ nextId = Cardinality(Msgs) + 1
    /\ clock = 1
    /\ stats = ZeroStats
    /\ run = [mode |-> "idle", queue |-> <<>>]
    /\ last = Op("init", FALSE, 0, 0, NoId)

\* add_stub reading the document again before it appends and saves
ProcRegister_reload(p, eid, m) ==
    LET entry == StubEntry(eid, StoryOf(m), create_fingerprint(Subject(m), Received(m)),
                           Subject(m), Received(m))
        reg == load(disk)
    IN /\ IsStub(m)
       /\ Len(reg) < MaxStubs \/ ~add_stub_ret(reg, entry)
       /\ stubs' = IF p = 1 THEN add_stub(reg, entry) ELSE stubs
       /\ peer' = IF p = 2 THEN add_stub(reg, entry) ELSE peer
       /\ disk' = IF add_stub_ret(reg, entry) THEN save(add_stub(reg, entry)) ELSE disk
       /\ last' = Op("proc_register", add_stub_ret(reg, entry), 0, m, eid) @@ [proc |-> p]
       /\ UNCHANGED <<mailbox, nextId, clock, stats, run>>

\* StubRegistry.add_stub(stub_entry) in process p
ProcRegister(p, eid, m) ==
    LET entry == StubEntry(eid, StoryOf(m), create_fingerprint(Subject(m), Received(m)),
                           Subject(m), Received(m))
        reg == Reg(p)
    IN /\ IsStub(m)
       /\ Len(reg) < MaxStubs \/ ~add_stub_ret(reg, entry)
       /\ stubs' = IF p = 1 THEN add_stub(reg, entry) ELSE stubs
       /\ peer' = IF p = 2 THEN add_stub(reg, entry) ELSE peer
       /\ disk' = IF add_stub_ret(reg, entry) THEN save(add_stub(reg, entry)) ELSE disk
       /\ last' = Op("proc_register", add_stub_ret(reg, entry), 0, m, eid) @@ [proc |-> p]
       /\ UNCHANGED <<mailbox, nextId, clock, stats, run>>

\* StubRegistry.update_status(outlook_entry_id, "completed", datetime.now()) in
\* process p, as StubMatcher.update_registry calls it
ProcComplete(p, eid) ==
    LET reg == Reg(p)
        new == update_status(reg, eid, "completed", Now(clock), Now(clock))
    IN /\ clock <= MaxClock
       /\ stubs' = IF p = 1 THEN new ELSE stubs
       /\ peer' = IF p = 2 THEN new ELSE peer
       /\ disk' = IF update_status_ret(reg, eid) THEN save(new) ELSE disk
       /\ clock' = IF update_status_ret(reg, eid) THEN clock + 1 ELSE clock
       /\ last' = Op("proc_complete", update_status_ret(reg, eid), 0, 0, eid) @@ [proc |-> p]
       /\ UNCHANGED <<mailbox, nextId, stats, run>>

ConcurrentNext ==
    \/ \E p \in Procs, s \in Intake : ProcRegister(p, s[1], s[2])
    \/ \E p \in Procs, eid \in ProcEntryIds : ProcComplete(p, eid)

SpecConcurrent == InitConcurrent /\ [][ConcurrentNext]_vars

\* the records of a registry
Records(reg) == {reg[i] : i \in 1..Len(reg)}

\* C21: nothing guards the document against a second writer.  After every
\* successful register or completion of a process the document holds that
\* process's list and nothing else: its records from before the call, unchanged
\* and in place, plus the one record the call added or completed.  What the
\* other process persisted in between is overwritten.
C21_LostUpdate ==
    [][(last'.op \in {"proc_register", "proc_complete"} /\ last'.ret)
       => LET before == Reg(last'.proc)
              after == RegNext(last'.proc)
          IN /\ load(disk') = after
             /\ Len(after) = Len(before) + (IF last'.op = "proc_register" THEN 1 ELSE 0)
             /\ \A i \in 1..Len(before) :
                    before[i].outlook_entry_id # last'.eid => after[i] = before[i]]_vars

\* C21 witness: both processes started from the document holding one pending
\* stub; process 1 completed it and registered a second stub, persisting both;
\* then process 2 registered a stub of its own, and the document it wrote holds
\* neither the completion nor the record process 1 registered.
C21_Witness ==
    /\ last.op = "proc_register"
    /\ last.proc = 2
    /\ last.ret
    /\ Len(stubs) = 2
    /\ stubs[1].status = "completed"
    /\ stubs[2] \notin Records(load(disk))
    /\ stubs[1] \notin Records(load(disk))
    /\ \E i \in 1..Len(disk) :
           /\ disk[i].outlook_entry_id = stubs[1].outlook_entry_id
           /\ disk[i].status = "pending"

\* C22: stub intake (StubManager.process_stub, IngestionPipeline._process_stub)
\* moves the message into the holding folder only after register succeeded for
\* it in the same call; when register is rejected as a duplicate, no move is
\* made: the folders stay as they are.
C22_MoveAfterRegister ==
    [][(last'.op \in {"process_stub", "pipeline_stub"} /\ mailbox' # mailbox)
       => /\ get_stub_by_id(stubs, last'.eid) = 0
          /\ get_stub_by_id(stubs', last'.eid) # 0]_vars

C24_MoveFailed ==
    [][(last'.op \in {"complete_stub", "sweep_step"} /\ mailbox' = mailbox)
       => /\ ~last'.ret
          /\ stubs' = stubs
          /\ disk' = disk
          /\ stubs[last'.idx].status = "pending"
             => /\ stubs'[last'.idx].status = "pending"
                /\ stubs'[last'.idx].completed_at = NoTime
                /\ stubs'[last'.idx].outlook_entry_id = stubs[last'.idx].outlook_entry_id]_vars

\* C24 witness: complete_stub returned false on a PENDING record whose message
\* is still in the holding folder, and no message is in the archive folder.
C24_Witness ==
    /\ last.op = "complete_stub"
    /\ ~last.ret
    /\ stubs[last.idx].status = "pending"
    /\ stubs[last.idx].completed_at = NoTime
    /\ stubs[last.idx].outlook_entry_id = last.eid
    /\ \E m \in Msgs : /\ mailbox[m].folder = "stubs"
                       /\ Subject(m) = stubs[last.idx].subject
                       /\ Received(m) = stubs[last.idx].received_time
    /\ \A m \in Msgs : mailbox[m].folder # "processed"

\* the messages the record was built from that sit in the given folder
MessagesOf(r, folder) ==
    {m \in Msgs : /\ mailbox[m].folder = folder
                  /\ Subject(m) = r.subject
                  /\ Received(m) = r.received_time}

\* C25: when a record is PENDING although its stub message already is in the
\* archive folder (complete_stub's move succeeded, the completion did not reach
\* the document), a sweep that matches the record and finds the connector
\* working completes it.
C25_SweepRecovers ==
    [][(/\ last'.op = "sweep_step"
        /\ last'.ok
        /\ stubs[last'.idx].status = "pending"
        /\ MessagesOf(stubs[last'.idx], "processed") # {})
       => stubs'[last'.idx].status = "completed"]_vars

\* find_matches, the email a pending stub is paired with: the entry of
\* story_id_map under the stub's Story ID, else the entry of fingerprint_map
\* under the stub's fingerprint.  Each map keeps one email per key (the last of
\* the folder with that key), so the result is one of the emails returned here.
sweep_candidates(r, indexed) ==
    LET byStory == IF r.story_id = NoStory THEN {}
                   ELSE {m \in indexed : StoryOf(m) # NoStory /\ StoryOf(m) = r.story_id}
        byFingerprint ==
            IF r.fingerprint = <<>> THEN {}
            ELSE {m \in indexed : create_fingerprint(Subject(m), Received(m)) = r.fingerprint}
    IN IF byStory # {} THEN byStory ELSE byFingerprint

\* C26: for the PENDING records of the registry and the complete messages of
\* /indexed/, the sweep pairs a record with a message exactly when the live
\* matcher (find_matching_stub on that message's document) returns that record.
C26_SweepAsLive ==
    \A i \in 1..Len(stubs), m \in indexed_emails(mailbox) :
        stubs[i].status = "pending"
        => (m \in sweep_candidates(stubs[i], indexed_emails(mailbox))
            <=> find_matching_stub(stubs, StoryOf(m),
                                   get_fingerprint(Subject(m), Received(m))) = i)

\* C27: for every subject and received date EmailDocument.get_fingerprint()
\* returns the string StubRegistry.create_fingerprint(subject, date) returns.
C27_SameFingerprint ==
    last.op = "create_fingerprint" => last.document = last.plain

\* C28 as stated: a subject behind a bracketed token in lower or mixed case, or
\* behind spaces and a bracketed token, normalizes to the same string as the
\* subject alone (taken for subjects that do not start with a token themselves).
C28_AnyCase ==
    (/\ last.op = "normalize_subject"
     /\ last.prefix \in OtherPrefixes
     /\ ~HasPrefix(last.subject))
    => last.prefixed = last.plain

\* C28 amended: normalize removes one leading bracketed token only when the
\* token is written in capital letters and its bracket is the first character
\* of the subject; then the result is the rest of the subject without the
\* whitespace at its ends.  Behind a token in lower or mixed case, or behind
\* spaces and a token, nothing is removed but the whitespace at the two ends.
C28_CapitalsAtStart ==
    last.op = "normalize_subject"
    => IF last.prefix \in Prefixes
       THEN last.prefixed = Strip(last.subject)
       ELSE last.prefixed = Strip(last.prefix \o <<" ">> \o last.subject)

\* C28 witness: a subject with a letter was normalized behind a lower-case
\* token, and the token is still there.
C28_Witness ==
    /\ last.op = "normalize_subject"
    /\ last.prefix = <<"(", "x", ")">>
    /\ \E i \in 1..Len(last.subject) : last.subject[i] = "f"
    /\ ~HasPrefix(last.subject)
    /\ last.prefixed = <<"(", "x", ")", " ">> \o Strip(last.subject)
    /\ last.prefixed # last.plain

\* C29: in every state of a registry driven by register and update_external_id
\* calls no two records carry the same EntryID.
C29_UniqueIds ==
    \A i, j \in 1..Len(stubs) :
        i # j => stubs[i].outlook_entry_id # stubs[j].outlook_entry_id

\* C30: in every state the pipeline, the manager, the matcher and the sweep
\* reach, a record has completed_at set exactly when its status is COMPLETED,
\* in the registry and in the persisted document.
C30_CompletedAtIffCompleted ==
    /\ \A i \in 1..Len(stubs) :
           stubs[i].completed_at # NoTime <=> stubs[i].status = "completed"
    /\ \A i \in 1..Len(disk) :
           disk[i].completed_at # NoTime <=> disk[i].status = "completed"

\* C30 witness: after a step of the sweep the registry holds a COMPLETED record
\* with its completion time and a PENDING record without one.
C30_Witness ==
    /\ last.op = "sweep_step"
    /\ last.ret
    /\ \E i \in 1..Len(stubs) :
           stubs[i].status = "completed" /\ stubs[i].completed_at # NoTime
    /\ \E i \in 1..Len(stubs) :
           stubs[i].status = "pending" /\ stubs[i].completed_at = NoTime

====
